---- MODULE Spec2Model ----
(***************************************************************************)
(* Air-ticket booking REST API: the three Mongo collections (User, Flight, *)
(* Booking) and the Express handlers of the user, flight and booking       *)
(* routers.  Every storage call of a handler is one atomic step; a handler *)
(* with more than one storage call is split at its awaits, so that other   *)
(* requests interleave between its calls.                                  *)
(***************************************************************************)
EXTENDS Integers, Sequences, FiniteSets, TLC

\* ---------------------------------------------------------------- bounds
\* Number of identifiers each collection ever generates.
MaxUsers == 2
MaxFlights == 2
MaxBookings == 2

UserIds == 1..MaxUsers
FlightIds == 1..MaxFlights
BookingIds == 1..MaxBookings

\* ------------------------------------------------------- request inputs
Names == {"n1", "n2"}
Emails == {"e1", "e2"}
Passwords == {"p1", "p2"}
\* salts bcrypt may draw for one hash
Salts == {"s1", "s2"}

\* A JSON body is a function from the keys it holds to their values.
Pick(body, keys) == [k \in (DOMAIN body) \cap keys |-> body[k]]

\* Mongoose query results: null, or the document found.
Null == <<>>
Some(d) == <<d>>

\* ------------------------------------------------------------ the state
VARIABLES
    users,           \* User collection: _id -> document
    flights,         \* Flight collection: _id -> document
    bookings,        \* Booking collection: _id -> document
    nextUser,        \* next _id the User collection generates
    nextFlight,      \* next _id the Flight collection generates
    nextBooking,     \* next _id the Booking collection generates
    pc,              \* position of the handler that is between two storage calls
    loc,             \* that handler's local variables
    resp,            \* the response on its way to the client
    lastRegistered,  \* history: the user registered last, 0 once it is updated or deleted
    stale            \* history: bookings written, or whose user or flight was, during the listing in flight

vars == <<users, flights, bookings, nextUser, nextFlight, nextBooking,
          pc, loc, resp, lastRegistered, stale>>

colls == <<users, flights, bookings, nextUser, nextFlight, nextBooking>>

NoLoc == [op |-> "none"]
NoResp == [op |-> "none"]

Response(op, req, status, message, body) ==
    [op |-> op, req |-> req, status |-> status, message |-> message, body |-> body]

\* The catch block of a handler: the response tells nothing of the request.
InternalError(op) == Response(op, <<>>, 500, "Internal server error", <<>>)

Init ==
    /\ users = <<>>
    /\ flights = <<>>
    /\ bookings = <<>>
    /\ nextUser = 1
    /\ nextFlight = 1
    /\ nextBooking = 1
    /\ pc = "idle"
    /\ loc = NoLoc
    /\ resp = NoResp
    /\ lastRegistered = 0
    /\ stale = {}

\* A handler step runs once the previous response has left the server.
Ready(at) == pc = at /\ resp = NoResp

\* res.status(..).json(..): the response reaches the client.
Deliver ==
    /\ resp # NoResp
    /\ resp' = NoResp
    /\ stale' = IF pc = "dashboard" THEN stale ELSE {}
    /\ UNCHANGED <<colls, pc, loc, lastRegistered>>

\* --------------------------------------------------- storage operations
findById(coll, id) == IF id \in DOMAIN coll THEN Some(coll[id]) ELSE Null

Insert(coll, id, doc) ==
    [k \in (DOMAIN coll) \cup {id} |-> IF k = id THEN doc ELSE coll[k]]

Remove(coll, id) == [k \in (DOMAIN coll) \ {id} |-> coll[k]]

\* $set of the keys of an update: the other paths keep their values.
SetPaths(doc, update) ==
    [k \in DOMAIN doc |-> IF k \in DOMAIN update THEN update[k] ELSE doc[k]]

\* findByIdAndUpdate without its filter: every document is updated.
updateEvery(coll, id, update) ==
    IF id \in DOMAIN coll
    THEN [k \in DOMAIN coll |-> SetPaths(coll[k], update)]
    ELSE coll

findByIdAndUpdate(coll, id, update) ==
    IF id \in DOMAIN coll
    THEN [coll EXCEPT ![id] = SetPaths(coll[id], update)]
    ELSE coll

\* find(): the documents in natural order.
find(coll, next) ==
    SelectSeq([i \in 1..(next - 1) |-> i], LAMBDA i : i \in DOMAIN coll)

\* A write of a booking, or of the user or flight a booking refers to, makes
\* that booking stale for the dashboard listing in flight.
Wrote(kind, id) ==
    IF pc # "dashboard" THEN {}
    ELSE IF kind = "booking" THEN stale \cup {id}
    ELSE stale \cup {k \in DOMAIN bookings : bookings[k][kind] = id}

\* ---------------------------------------------------------------- bcrypt
\* A stored password string: a bcrypt hash "$2b$05$<salt><digest of text>"
\* (hashed) or the string text itself.
Plain(p) == [hashed |-> FALSE, salt |-> "", text |-> p]

bcryptHash(p, salt) == [hashed |-> TRUE, salt |-> salt, text |-> p]

\* bcrypt.compare(data, encrypted): false for a string that is no hash.
bcryptCompare(p, stored) == stored.hashed /\ stored.text = p

\* ------------------------------------------------------------ user router
UserFields == {"name", "email", "password"}

RegisterBodies ==
    [name : Names, email : Emails, password : Passwords] \cup [name : Names, email : Emails]

LoginBodies == [email : Emails, password : Passwords] \cup [email : Emails]

UserPatches ==
    {b \in UNION {[keys -> Names \cup Emails \cup Passwords] : keys \in SUBSET UserFields} :
        /\ "name" \in DOMAIN b => b["name"] \in Names
        /\ "email" \in DOMAIN b => b["email"] \in Emails
        /\ "password" \in DOMAIN b => b["password"] \in Passwords}

\* GET /api/user
UserList(fail) ==
    /\ Ready("idle")
    /\ resp' = IF fail THEN InternalError("userList")
               ELSE Response("userList", <<>>, 200, "",
                             [i \in 1..Len(find(users, nextUser)) |-> users[find(users, nextUser)[i]]])
    /\ UNCHANGED <<colls, pc, loc, lastRegistered, stale>>

\* The User model: name, email and password strings; no index makes the
\* email unique, so save() accepts a document whatever the collection holds.
UserModelAccepts(coll, doc) == TRUE

\* POST /api/user/register
Register(body, salt, fail) ==
    /\ Ready("idle")
    /\ nextUser <= MaxUsers
    /\ IF "password" \notin DOMAIN body \/ fail
       THEN /\ resp' = Response("register", <<>>, 500, "", <<>>)
            /\ UNCHANGED <<users, nextUser, lastRegistered>>
       ELSE LET newUser == [_id |-> nextUser, name |-> body.name, email |-> body.email,
                            password |-> bcryptHash(body.password, salt)]
            IN /\ UserModelAccepts(users, newUser)
               /\ users' = Insert(users, nextUser, newUser)
               /\ nextUser' = nextUser + 1
               /\ lastRegistered' = nextUser
               /\ resp' = Response("register", body, 201, "User saved", Some(newUser))
    /\ stale' = IF "password" \notin DOMAIN body \/ fail THEN stale ELSE Wrote("user", nextUser)
    /\ UNCHANGED <<flights, bookings, nextFlight, nextBooking, pc, loc>>

\* UserModel.findOne({ email }): the first match in natural order.
findOneByEmail(coll, email) ==
    LET hits == {id \in DOMAIN coll : coll[id].email = email}
    IN IF hits = {} THEN Null
       ELSE Some(coll[CHOOSE id \in hits : \A other \in hits : id <= other])

\* jwt.sign({ userId }, "secret", { expiresIn: "1h" })
jwtSign(userId) == [userId |-> userId, expiresIn |-> "1h"]

\* LoginResponse with the token, signed before the check, sent either way.
LoginResponseLeaky(body, user) ==
    IF user = Null THEN Response("login", body, 401, "User not present", <<>>)
    ELSE IF "password" \notin DOMAIN body THEN InternalError("login")
    ELSE IF bcryptCompare(body.password, user[1].password)
         THEN Response("login", body, 200, "User logged in", Some(jwtSign(user[1]._id)))
         ELSE Response("login", body, 401, "password wrong", Some(jwtSign(user[1]._id)))

\* The response of POST /api/user/login once findOne returned user.
LoginResponse(body, user) ==
    IF user = Null THEN Response("login", body, 401, "User not present", <<>>)
    ELSE IF "password" \notin DOMAIN body THEN InternalError("login")
    ELSE IF bcryptCompare(body.password, user[1].password)
         THEN Response("login", body, 200, "User logged in", Some(jwtSign(user[1]._id)))
         ELSE Response("login", body, 401, "password wrong", <<>>)

\* POST /api/user/login
Login(body, fail) ==
    /\ Ready("idle")
    /\ resp' = IF fail THEN InternalError("login")
               ELSE LoginResponse(body, findOneByEmail(users, body.email))
    /\ UNCHANGED <<colls, pc, loc, lastRegistered, stale>>

\* DELETE /api/user/:id
UserDelete(id, fail) ==
    /\ resp = NoResp
    /\ IF fail
       THEN /\ resp' = InternalError("userDelete")
            /\ UNCHANGED <<users, lastRegistered, stale>>
       ELSE /\ users' = Remove(users, id)
            /\ lastRegistered' = IF lastRegistered = id THEN 0 ELSE lastRegistered
            /\ stale' = IF id \in DOMAIN users THEN Wrote("user", id) ELSE stale
            /\ resp' = IF id \in DOMAIN users
                       THEN Response("userDelete", <<id>>, 204, "", <<>>)
                       ELSE Response("userDelete", <<id>>, 404, "User not found", <<>>)
    /\ UNCHANGED <<flights, bookings, nextUser, nextFlight, nextBooking, pc, loc>>

\* UserUpdateDoc with the keys the body lacks sent as null.
UserUpdateDocNulls(body) ==
    [k \in UserFields |->
        IF k \in DOMAIN body
        THEN (IF k = "password" THEN Plain(body[k]) ELSE body[k])
        ELSE (IF k = "password" THEN Plain("null") ELSE "null")]

\* The update of PATCH /api/user/:id, { name, email, password }: a key the
\* body lacks is undefined and is not sent; a password is sent as the body
\* gave it.
UserUpdateDoc(body) ==
    [k \in (DOMAIN body) \cap UserFields |->
        IF k = "password" THEN Plain(body[k]) ELSE body[k]]

\* PATCH /api/user/:id
UserUpdate(id, body, fail) ==
    /\ resp = NoResp
    /\ IF fail
       THEN /\ resp' = InternalError("userUpdate")
            /\ UNCHANGED <<users, lastRegistered, stale>>
       ELSE /\ users' = findByIdAndUpdate(users, id, UserUpdateDoc(body))
            /\ lastRegistered' = IF lastRegistered = id THEN 0 ELSE lastRegistered
            /\ stale' = IF id \in DOMAIN users THEN Wrote("user", id) ELSE stale
            /\ resp' = IF id \in DOMAIN users
                       THEN Response("userUpdate", <<id, body>>, 204, "", <<>>)
                       ELSE Response("userUpdate", <<id, body>>, 404, "User not found", <<>>)
    /\ UNCHANGED <<flights, bookings, nextUser, nextFlight, nextBooking, pc, loc>>

NextUser ==
    \/ \E fail \in BOOLEAN : UserList(fail)
    \/ \E body \in RegisterBodies, salt \in Salts, fail \in BOOLEAN : Register(body, salt, fail)
    \/ \E body \in LoginBodies, fail \in BOOLEAN : Login(body, fail)
    \/ \E id \in UserIds, fail \in BOOLEAN : UserDelete(id, fail)
    \/ \E id \in UserIds, body \in UserPatches, fail \in BOOLEAN : UserUpdate(id, body, fail)
    \/ Deliver

SpecUser == Init /\ [][NextUser]_vars

\* ------------------------------------------------- user router: properties
\* The user findOne({ email }) returns: the first of the users with the email.
FirstWithEmail(email) ==
    LET hits == {id \in DOMAIN users : users[id].email = email}
    IN CHOOSE id \in hits : \A other \in hits : id <= other

\* C5: a login with the email and password of a user who registered and was
\* not updated or deleted since is answered 200 with a token, whoever else
\* registered before.
C5_RegisteredUserLogsIn ==
    (/\ resp.op = "login"
     /\ resp.status # 500
     /\ "password" \in DOMAIN resp.req
     /\ lastRegistered \in DOMAIN users
     /\ users[lastRegistered].email = resp.req.email
     /\ bcryptCompare(resp.req.password, users[lastRegistered].password))
        => resp.status = 200 /\ resp.body # Null

C9_PasswordsHashed == \A id \in DOMAIN users : users[id].password.hashed

\* C10: a user update overwrites the fields the body supplies with the values
\* supplied and leaves the other fields and the other users as they were;
\* for an identifier that does not resolve it answers 404 and changes no user.
C10_UserUpdateOverwritesSupplied ==
    [][(resp = NoResp /\ resp'.op = "userUpdate" /\ resp'.status # 500) =>
         LET id == resp'.req[1]
             body == resp'.req[2]
         IN IF id \in DOMAIN users
            THEN /\ resp'.status = 204
                 /\ DOMAIN users' = DOMAIN users
                 /\ \A other \in DOMAIN users \ {id} : users'[other] = users[other]
                 /\ users'[id]._id = id
                 /\ \A k \in {"name", "email"} :
                       users'[id][k] = IF k \in DOMAIN body THEN body[k] ELSE users[id][k]
                 /\ users'[id].password =
                       IF "password" \in DOMAIN body THEN Plain(body.password)
                       ELSE users[id].password
            ELSE /\ resp'.status = 404
                 /\ users' = users /\ nextUser' = nextUser]_vars

C10_Witness ==
    /\ resp.op = "userUpdate"
    /\ resp.status = 204
    /\ DOMAIN resp.req[2] = {"email"}
    /\ users[resp.req[1]].name = "n2"
    /\ users[resp.req[1]].password.hashed

\* ---------------------------------------------------------- flight router
FlightFields ==
    {"airline", "flightNo", "departure", "arrival",
     "departureTime", "arrivalTime", "seats", "price"}

FlightBodies ==
    {[airline |-> "AI", flightNo |-> "AI101", departure |-> "DEL", arrival |-> "BOM",
      departureTime |-> "t1", arrivalTime |-> "t2", seats |-> 100, price |-> 50],
     [airline |-> "6E", flightNo |-> "6E202", departure |-> "BLR", arrival |-> "GOI",
      departureTime |-> "t3", arrivalTime |-> "t4", seats |-> 180, price |-> 30]}

FlightPatches ==
    {<<>>,
     [seats |-> 99],
     [price |-> 75, airline |-> "UK"],
     [departure |-> "HYD", departureTime |-> "t5", seats |-> 100]}
    \cup FlightBodies

\* GET /api/flight
FlightList(fail) ==
    /\ Ready("idle")
    /\ resp' = IF fail THEN InternalError("flightList")
               ELSE Response("flightList", <<>>, 200, "",
                             [i \in 1..Len(find(flights, nextFlight)) |->
                                 flights[find(flights, nextFlight)[i]]])
    /\ UNCHANGED <<colls, pc, loc, lastRegistered, stale>>

\* POST /api/flight
FlightCreate(body, fail) ==
    /\ Ready("idle")
    /\ nextFlight <= MaxFlights
    /\ IF fail
       THEN /\ resp' = InternalError("flightCreate")
            /\ UNCHANGED <<flights, nextFlight>>
       ELSE LET newFlight == [k \in {"_id"} \cup FlightFields |->
                                 IF k = "_id" THEN nextFlight ELSE body[k]]
            IN /\ flights' = Insert(flights, nextFlight, newFlight)
               /\ nextFlight' = nextFlight + 1
               /\ resp' = Response("flightCreate", body, 201, "Flight added", Some(newFlight))
    /\ stale' = IF fail THEN stale ELSE Wrote("flight", nextFlight)
    /\ UNCHANGED <<users, bookings, nextUser, nextBooking, pc, loc, lastRegistered>>

\* GET /api/flight/:id
FlightGet(id, fail) ==
    /\ Ready("idle")
    /\ resp' = IF fail THEN InternalError("flightGet")
               ELSE IF findById(flights, id) = Null
                    THEN Response("flightGet", <<id>>, 404, "Flight not found", <<>>)
                    ELSE Response("flightGet", <<id>>, 200, "", findById(flights, id))
    /\ UNCHANGED <<colls, pc, loc, lastRegistered, stale>>

\* The update of PATCH /api/flight/:id is the request body; the paths the
\* schema does not declare are dropped.
FlightUpdateDoc(body) == Pick(body, FlightFields)

\* PATCH /api/flight/:id
FlightUpdate(id, body, fail) ==
    /\ resp = NoResp
    /\ IF fail
       THEN /\ resp' = InternalError("flightUpdate")
            /\ UNCHANGED <<flights, stale>>
       ELSE /\ flights' = findByIdAndUpdate(flights, id, FlightUpdateDoc(body))
            /\ stale' = IF id \in DOMAIN flights THEN Wrote("flight", id) ELSE stale
            /\ resp' = IF id \in DOMAIN flights
                       THEN Response("flightUpdate", <<id, body>>, 200, "", Some(flights'[id]))
                       ELSE Response("flightUpdate", <<id, body>>, 404, "Flight not found", <<>>)
    /\ UNCHANGED <<users, bookings, nextUser, nextFlight, nextBooking, pc, loc, lastRegistered>>

\* FlightDelete answering 404 for a flight that is absent, as the other
\* deletes do.
FlightDeleteStrict(id, fail) ==
    /\ resp = NoResp
    /\ IF fail
       THEN /\ resp' = InternalError("flightDelete")
            /\ UNCHANGED <<flights, stale>>
       ELSE /\ flights' = Remove(flights, id)
            /\ stale' = IF id \in DOMAIN flights THEN Wrote("flight", id) ELSE stale
            /\ resp' = IF id \in DOMAIN flights
                       THEN Response("flightDelete", <<id>>, 200, "Flight Deleted", <<>>)
                       ELSE Response("flightDelete", <<id>>, 404, "Flight not found", <<>>)
    /\ UNCHANGED <<users, bookings, nextUser, nextFlight, nextBooking, pc, loc, lastRegistered>>

\* DELETE /api/flight/:id
FlightDelete(id, fail) ==
    /\ resp = NoResp
    /\ IF fail
       THEN /\ resp' = InternalError("flightDelete")
            /\ UNCHANGED <<flights, stale>>
       ELSE /\ flights' = Remove(flights, id)
            /\ stale' = IF id \in DOMAIN flights THEN Wrote("flight", id) ELSE stale
            /\ resp' = Response("flightDelete", <<id>>, 200, "Flight Deleted", <<>>)
    /\ UNCHANGED <<users, bookings, nextUser, nextFlight, nextBooking, pc, loc, lastRegistered>>

NextFlight ==
    \/ \E fail \in BOOLEAN : FlightList(fail)
    \/ \E body \in FlightBodies, fail \in BOOLEAN : FlightCreate(body, fail)
    \/ \E id \in FlightIds, fail \in BOOLEAN : FlightGet(id, fail)
    \/ \E id \in FlightIds, body \in FlightPatches, fail \in BOOLEAN : FlightUpdate(id, body, fail)
    \/ \E id \in FlightIds, fail \in BOOLEAN : FlightDelete(id, fail)
    \/ Deliver

SpecFlight == Init /\ [][NextFlight]_vars

\* ----------------------------------------------- flight router: properties
\* C8: a flight update overwrites the fields its body holds on the flight
\* identified and leaves that flight's other fields, the other flights and
\* the users and bookings as they were; for an identifier that does not
\* resolve it answers 404 and changes nothing.
C8_FlightUpdateOverwritesSupplied ==
    [][(resp = NoResp /\ resp'.op = "flightUpdate" /\ resp'.status # 500) =>
         LET id == resp'.req[1]
             body == resp'.req[2]
         IN /\ UNCHANGED <<users, bookings, nextUser, nextFlight, nextBooking>>
            /\ IF id \in DOMAIN flights
               THEN /\ resp'.status = 200
                    /\ DOMAIN flights' = DOMAIN flights
                    /\ \A other \in DOMAIN flights \ {id} : flights'[other] = flights[other]
                    /\ flights'[id]._id = id
                    /\ \A k \in FlightFields :
                          flights'[id][k] = IF k \in DOMAIN body THEN body[k] ELSE flights[id][k]
               ELSE /\ resp'.status = 404
                    /\ flights' = flights]_vars

C8_Witness ==
    /\ resp.op = "flightUpdate"
    /\ resp.status = 200
    /\ DOMAIN resp.req[2] = {"seats"}
    /\ flights[resp.req[1]].seats = 99
    /\ flights[resp.req[1]].airline = "AI"
    /\ \E other \in DOMAIN flights : other # resp.req[1] /\ flights[other].seats # 99

\* --------------------------------------------------------- booking router
BookingFields == {"user", "flight"}

BookingBodies == [user : UserIds, flight : FlightIds]

BookingPatches ==
    {b \in UNION {[keys -> UserIds \cup FlightIds] : keys \in SUBSET BookingFields} :
        /\ "user" \in DOMAIN b => b["user"] \in UserIds
        /\ "flight" \in DOMAIN b => b["flight"] \in FlightIds}

\* The handler in flight ends: its response is sent and its locals die.
Finish(response) ==
    /\ resp' = response
    /\ pc' = "idle"
    /\ loc' = NoLoc
    /\ stale' = stale

\* GET /api/booking/dashboard, BookingModel.find().  Of each populated
\* booking the locals keep the user and the flight looked up, null until
\* the lookup returns.
DashboardFind(fail) ==
    /\ Ready("idle")
    /\ IF fail THEN Finish(InternalError("dashboard"))
       ELSE IF DOMAIN bookings = {} THEN Finish(Response("dashboard", <<>>, 200, "", <<>>))
       ELSE /\ pc' = "dashboard"
            /\ loc' = [op |-> "dashboard",
                       order |-> find(bookings, nextBooking),
                       bookings |-> bookings,
                       user |-> [b \in DOMAIN bookings |-> Null],
                       flight |-> [b \in DOMAIN bookings |-> Null],
                       stage |-> [b \in DOMAIN bookings |-> 0]]
            /\ stale' = {}
            /\ resp' = resp
    /\ UNCHANGED <<colls, lastRegistered>>

\* DashboardFindUser looking the user up by the booking's flight.
DashboardFindUserByFlight(b, fail) ==
    /\ Ready("dashboard")
    /\ b \in DOMAIN loc.stage
    /\ loc.stage[b] = 0
    /\ IF fail THEN Finish(InternalError("dashboard"))
       ELSE /\ loc' = [loc EXCEPT !.user[b] = findById(users, loc.bookings[b].flight),
                                  !.stage[b] = 1]
            /\ UNCHANGED <<pc, resp, stale>>
    /\ UNCHANGED <<colls, lastRegistered>>

\* DashboardFindUser with a lookup that throws when it finds no document.
DashboardFindUserOrFail(b, fail) ==
    /\ Ready("dashboard")
    /\ b \in DOMAIN loc.stage
    /\ loc.stage[b] = 0
    /\ IF fail \/ findById(users, loc.bookings[b].user) = Null
       THEN Finish(InternalError("dashboard"))
       ELSE /\ loc' = [loc EXCEPT !.user[b] = findById(users, loc.bookings[b].user),
                                  !.stage[b] = 1]
            /\ UNCHANGED <<pc, resp, stale>>
    /\ UNCHANGED <<colls, lastRegistered>>

\* populatedBooking.user = await UserModel.findById(booking.user)
DashboardFindUser(b, fail) ==
    /\ Ready("dashboard")
    /\ b \in DOMAIN loc.stage
    /\ loc.stage[b] = 0
    /\ IF fail THEN Finish(InternalError("dashboard"))
       ELSE /\ loc' = [loc EXCEPT !.user[b] = findById(users, loc.bookings[b].user),
                                  !.stage[b] = 1]
            /\ UNCHANGED <<pc, resp, stale>>
    /\ UNCHANGED <<colls, lastRegistered>>

\* populatedBooking.flight = await FlightModel.findById(booking.flight);
\* the last lookup to return resolves Promise.all and the list is sent.
DashboardFindFlight(b, fail) ==
    /\ Ready("dashboard")
    /\ b \in DOMAIN loc.stage
    /\ loc.stage[b] = 1
    /\ IF fail THEN Finish(InternalError("dashboard"))
       ELSE LET flight == [loc.flight EXCEPT ![b] = findById(flights, loc.bookings[b].flight)]
                populatedBooking(k) ==
                    [_id |-> k, user |-> loc.user[k], flight |-> flight[k]]
            IN IF \A other \in DOMAIN loc.stage \ {b} : loc.stage[other] = 2
               THEN Finish(Response("dashboard", <<>>, 200, "",
                                    [i \in 1..Len(loc.order) |-> populatedBooking(loc.order[i])]))
               ELSE /\ loc' = [loc EXCEPT !.flight = flight, !.stage[b] = 2]
                    /\ UNCHANGED <<pc, resp, stale>>
    /\ UNCHANGED <<colls, lastRegistered>>

\* POST /api/booking, const u = await UserModel.findById(user)
BookingCreateFindUser(body, fail) ==
    /\ Ready("idle")
    /\ nextBooking <= MaxBookings
    /\ IF fail THEN Finish(InternalError("bookingCreate"))
       ELSE /\ pc' = "bookingCreateFlight"
            /\ loc' = [op |-> "bookingCreate", user |-> body.user, flight |-> body.flight,
                       u |-> findById(users, body.user)]
            /\ stale' = {}
            /\ resp' = resp
    /\ UNCHANGED <<colls, lastRegistered>>

\* const f = await FlightModel.findById(flight), then the two checks
BookingCreateFindFlight(fail) ==
    /\ Ready("bookingCreateFlight")
    /\ IF fail THEN Finish(InternalError("bookingCreate"))
       ELSE IF loc.u = Null
            THEN Finish(Response("bookingCreate", loc, 404, "User  not found", <<>>))
       ELSE IF findById(flights, loc.flight) = Null
            THEN Finish(Response("bookingCreate", loc, 404, "Flight not found", <<>>))
       ELSE /\ pc' = "bookingCreateSave"
            /\ UNCHANGED <<loc, resp, stale>>
    /\ UNCHANGED <<colls, lastRegistered>>

\* await newBooking.save()
BookingCreateSave(fail) ==
    /\ Ready("bookingCreateSave")
    /\ IF fail
       THEN /\ Finish(InternalError("bookingCreate"))
            /\ UNCHANGED <<bookings, nextBooking>>
       ELSE LET newBooking == [_id |-> nextBooking, user |-> loc.user, flight |-> loc.flight]
            IN /\ bookings' = Insert(bookings, nextBooking, newBooking)
               /\ nextBooking' = nextBooking + 1
               /\ Finish(Response("bookingCreate", loc, 201, "Flight booked", Some(newBooking)))
    /\ UNCHANGED <<users, flights, nextUser, nextFlight, lastRegistered>>

\* PATCH /api/booking/dashboard/:id, BookingModel.findById(bookingId)
BookingUpdateFind(id, body, fail) ==
    /\ Ready("idle")
    /\ IF fail THEN Finish(InternalError("bookingUpdate"))
       ELSE IF findById(bookings, id) = Null
            THEN Finish(Response("bookingUpdate", <<id, body>>, 404, "Booking not found", <<>>))
       ELSE /\ pc' = "bookingUpdateSave"
            /\ loc' = [op |-> "bookingUpdate", booking |-> bookings[id],
                       update |-> Pick(body, BookingFields)]
            /\ stale' = {}
            /\ resp' = resp
    /\ UNCHANGED <<colls, lastRegistered>>

\* BookingUpdateSave with a save that is issued again until the storage
\* answers it.
BookingUpdateSaveRetry(fail) ==
    /\ Ready("bookingUpdateSave")
    /\ LET id == loc.booking._id
           modified == {k \in DOMAIN loc.update : loc.update[k] # loc.booking[k]}
       IN IF modified # {} /\ id \notin DOMAIN bookings
          THEN /\ Finish(InternalError("bookingUpdate"))
               /\ UNCHANGED bookings
          ELSE /\ bookings' = findByIdAndUpdate(bookings, id, Pick(loc.update, modified))
               /\ Finish(Response("bookingUpdate", <<id, loc.update>>, 204, "", <<>>))
    /\ UNCHANGED <<users, flights, nextUser, nextFlight, nextBooking, lastRegistered>>

\* Object.assign(booking, updatedBookingData); await booking.save(): the
\* paths whose value changed are $set on the stored document; the save
\* throws when there are such paths and the document is gone.
BookingUpdateSave(fail) ==
    /\ Ready("bookingUpdateSave")
    /\ LET id == loc.booking._id
           modified == {k \in DOMAIN loc.update : loc.update[k] # loc.booking[k]}
       IN IF fail \/ (modified # {} /\ id \notin DOMAIN bookings)
          THEN /\ Finish(InternalError("bookingUpdate"))
               /\ UNCHANGED bookings
          ELSE /\ bookings' = findByIdAndUpdate(bookings, id, Pick(loc.update, modified))
               /\ Finish(Response("bookingUpdate", <<id, loc.update>>, 204, "", <<>>))
    /\ UNCHANGED <<users, flights, nextUser, nextFlight, nextBooking, lastRegistered>>

\* DELETE /api/booking/:id
BookingDelete(id, fail) ==
    /\ resp = NoResp
    /\ IF fail
       THEN /\ resp' = InternalError("bookingDelete")
            /\ UNCHANGED <<bookings, stale>>
       ELSE /\ bookings' = Remove(bookings, id)
            /\ stale' = IF id \in DOMAIN bookings THEN Wrote("booking", id) ELSE stale
            /\ resp' = IF id \in DOMAIN bookings
                       THEN Response("bookingDelete", <<id>>, 202, "Booking deleted", <<>>)
                       ELSE Response("bookingDelete", <<id>>, 404, "Booking not found", <<>>)
    /\ UNCHANGED <<users, flights, nextUser, nextFlight, nextBooking, pc, loc, lastRegistered>>

\* The booking router with the user and flight requests its lookups meet.
\* The booking handlers only copy the documents they find, so one register
\* body, one flight body, one user patch and the patches of a booking's user
\* stand for the rest.  One handler with several storage calls is in flight
\* at a time; the single-call requests interleave with it.
NextBooking ==
    \/ \E fail \in BOOLEAN : DashboardFind(fail)
    \/ \E b \in BookingIds, fail \in BOOLEAN : DashboardFindUser(b, fail)
    \/ \E b \in BookingIds, fail \in BOOLEAN : DashboardFindFlight(b, fail)
    \/ \E body \in BookingBodies, fail \in BOOLEAN : BookingCreateFindUser(body, fail)
    \/ \E fail \in BOOLEAN : BookingCreateFindFlight(fail)
    \/ \E fail \in BOOLEAN : BookingCreateSave(fail)
    \/ \E id \in BookingIds, body \in BookingPatches, fail \in BOOLEAN :
          DOMAIN body = {"user"} /\ BookingUpdateFind(id, body, fail)
    \/ \E fail \in BOOLEAN : BookingUpdateSave(fail)
    \/ \E id \in BookingIds, fail \in BOOLEAN : BookingDelete(id, fail)
    \/ Register([name |-> "n1", email |-> "e1", password |-> "p1"], "s1", FALSE)
    \/ \E id \in UserIds : UserUpdate(id, [name |-> "n2"], FALSE)
    \/ \E id \in UserIds : UserDelete(id, FALSE)
    \/ \E body \in FlightBodies : body.airline = "AI" /\ FlightCreate(body, FALSE)
    \/ \E id \in FlightIds : FlightDelete(id, FALSE)
    \/ Deliver

Spec == Init /\ [][NextBooking]_vars

\* ---------------------------------------------- booking router: properties
\* C1: no booking is inserted whose user or flight does not exist at the
\* moment of the insert.
C1_InsertedBookingRefersToExisting ==
    [][\A k \in BookingIds :
          (k \notin DOMAIN bookings /\ k \in DOMAIN bookings') =>
             /\ bookings'[k].user \in DOMAIN users'
             /\ bookings'[k].flight \in DOMAIN flights']_vars

\* C2: a booking create whose user lookup found no user answers 404 "User
\* not found" whatever becomes of the flight lookup, and inserts no booking.
C2_UserNotFoundWhateverTheFlight ==
    [][(pc = "bookingCreateFlight" /\ loc.u = Null /\ pc' = "idle") =>
          /\ resp'.status = 404
          /\ resp'.message = "User  not found"
          /\ bookings' = bookings]_vars

\* The entries of a dashboard response for booking k.
Entries(r, k) == {i \in DOMAIN r.body : r.body[i]._id = k}

\* C3: a booking create that succeeds stores its user and flight, and a
\* dashboard listing holds, for every booking that was not written and whose
\* user and flight exist and were not written since the listing began,
\* exactly one entry, joined with the stored user and the stored flight.
C3_DashboardJoinsStoredDocuments ==
    /\ (resp.op = "bookingCreate" /\ resp.status = 201) =>
          LET k == resp.body[1]._id
          IN /\ k \in DOMAIN bookings
             /\ bookings[k].user = resp.req.user
             /\ bookings[k].flight = resp.req.flight
    /\ (resp.op = "dashboard" /\ resp.status = 200) =>
          \A k \in DOMAIN bookings \ stale :
              (bookings[k].user \in DOMAIN users /\ bookings[k].flight \in DOMAIN flights) =>
                 /\ Cardinality(Entries(resp, k)) = 1
                 /\ \A i \in Entries(resp, k) :
                       /\ resp.body[i].user = Some(users[bookings[k].user])
                       /\ resp.body[i].flight = Some(flights[bookings[k].flight])

C3_Witness ==
    /\ resp.op = "dashboard"
    /\ resp.status = 200
    /\ \E k \in DOMAIN bookings \ stale :
          /\ bookings[k].user \in DOMAIN users
          /\ bookings[k].flight \in DOMAIN flights
          /\ bookings[k].user # bookings[k].flight
          /\ Entries(resp, k) # {}

\* C4: deleting a user or a flight leaves the bookings as they were; a
\* dashboard listing fails only on a storage failure, never on a reference
\* that does not resolve; it holds exactly one entry for every booking not
\* written since it began, with the user (the flight) null when that user
\* (flight) does not exist and was not written since the listing began.
C4_DashboardSurvivesDanglingReferences ==
    [][/\ (resp = NoResp /\ resp'.op \in {"userDelete", "flightDelete"}) => bookings' = bookings
       /\ (\E b \in BookingIds :
              DashboardFind(FALSE) \/ DashboardFindUser(b, FALSE) \/ DashboardFindFlight(b, FALSE)) =>
             (resp' = NoResp \/ (resp'.op = "dashboard" /\ resp'.status = 200))
       /\ (resp = NoResp /\ resp'.op = "dashboard" /\ resp'.status = 200) =>
             \A k \in DOMAIN bookings \ stale :
                 /\ Cardinality(Entries(resp', k)) = 1
                 /\ \A i \in Entries(resp', k) :
                       /\ bookings[k].user \notin DOMAIN users => resp'.body[i].user = Null
                       /\ bookings[k].flight \notin DOMAIN flights => resp'.body[i].flight = Null]_vars

C4_Witness ==
    /\ resp.op = "dashboard"
    /\ resp.status = 200
    /\ \E k, other \in DOMAIN bookings \ stale :
          /\ bookings[k].user \notin DOMAIN users
          /\ bookings[k].user < nextUser
          /\ \E i \in Entries(resp, k) : resp.body[i].user = Null /\ resp.body[i].flight # Null
          /\ \E i \in Entries(resp, other) : resp.body[i].user # Null

\* C7: a user delete and a booking delete of an identifier that does not
\* resolve answer 404 and change no collection; a flight delete answers 200
\* whether the flight exists or not, and changes nothing when it does not.
C7_DeleteOfAbsentIdentifier ==
    [][/\ (resp = NoResp /\ resp'.op = "userDelete" /\ resp'.status # 500
              /\ resp'.req[1] \notin DOMAIN users) =>
             (resp'.status = 404 /\ UNCHANGED colls)
       /\ (resp = NoResp /\ resp'.op = "bookingDelete" /\ resp'.status # 500
              /\ resp'.req[1] \notin DOMAIN bookings) =>
             (resp'.status = 404 /\ UNCHANGED colls)
       /\ (\E id \in FlightIds : FlightDelete(id, FALSE)) =>
             /\ resp'.status = 200
             /\ resp'.req[1] \notin DOMAIN flights => UNCHANGED colls]_vars

C7_Witness ==
    /\ resp.op = "flightDelete"
    /\ resp.status = 200
    /\ nextFlight = 1
    /\ DOMAIN users # {}

\* ------------------------------------------------------- storage failures
\* The handlers whose storage calls are several.
Handlers == {"dashboard", "bookingCreate", "bookingUpdate"}

\* The statuses the handlers send: success, NotFound, Unauthorized and
\* InternalError.
Success == {200, 201, 202, 204}
NotFound == 404
Unauthorized == 401
InternalErrorStatus == 500

\* The requests of the three routers, the storage call of each (the first
\* one of a handler that makes several) returning or failing.  The handlers
\* answer a failure without looking at the documents, so one body per create
\* and one patch per update stand for the rest; of the requests with one
\* storage call, the booking delete also arrives while a handler is in flight.
Request(fail) ==
    \/ UserList(fail)
    \/ Register([name |-> "n1", email |-> "e1", password |-> "p1"], "s1", fail)
    \/ \E body \in LoginBodies : body.email = "e1" /\ Login(body, fail)
    \/ \E id \in UserIds : pc = "idle" /\ UserDelete(id, fail)
    \/ \E id \in UserIds : pc = "idle" /\ UserUpdate(id, [name |-> "n2"], fail)
    \/ FlightList(fail)
    \/ \E body \in FlightBodies : body.airline = "AI" /\ FlightCreate(body, fail)
    \/ \E id \in FlightIds : FlightGet(id, fail)
    \/ \E id \in FlightIds : pc = "idle" /\ FlightUpdate(id, [seats |-> 99], fail)
    \/ \E id \in FlightIds : pc = "idle" /\ FlightDelete(id, fail)
    \/ DashboardFind(fail)
    \/ \E body \in BookingBodies : body.flight = 1 /\ BookingCreateFindUser(body, fail)
    \/ \E id \in BookingIds : BookingUpdateFind(id, [user |-> 2], fail)
    \/ \E id \in BookingIds : BookingDelete(id, fail)

\* A later storage call of the handler in flight returns or fails.
Return(fail) ==
    \/ \E b \in BookingIds : DashboardFindUser(b, fail)
    \/ \E b \in BookingIds : DashboardFindFlight(b, fail)
    \/ BookingCreateFindFlight(fail)
    \/ BookingCreateSave(fail)
    \/ BookingUpdateSave(fail)

NextFault ==
    \/ \E fail \in BOOLEAN : Request(fail)
    \/ \E fail \in BOOLEAN : Return(fail)
    \/ Deliver

\* The storage answers every call, and every response leaves the server.
SpecFault ==
    Init /\ [][NextFault]_vars /\ SF_vars(\E fail \in BOOLEAN : Return(fail)) /\ WF_vars(Deliver)

\* A storage call fails.
FailedCall == Request(TRUE) \/ Return(TRUE)

====
